---- MODULE Spec2Model ----
(***************************************************************************)
(* Model of mava's ParallelNStepTransitionAdder                            *)
(* (src/mava/adders/reverb/transition.py) and of the threads of the        *)
(* sebulba PPO system (src/mava/systems/ppo/sebulba/ff_ippo.py): the actor *)
(* threads running rollout, the learner thread and the main thread of      *)
(* run_experiment, which meet in a Pipeline, a learner_queue and one       *)
(* ThreadLifetime per actor.                                               *)
(*                                                                         *)
(* Numbers: rewards, environment discounts and the agent's additional      *)
(* discount are integers, so that sums and products are exact; float32     *)
(* rounding is outside the model.  Python index i of the writer's history  *)
(* is index i + 1 of the sequence `history`.                               *)
(***************************************************************************)
EXTENDS Integers, Sequences, FiniteSets, TLC

\* ---------------------------------------------------------------- bounds
MaxNStep == 3
MaxEpisodeLen == 5
\* largest configured Pipeline size
MaxCapacity == 2
\* trajectories one actor thread collects at most
MaxRollouts == 2
\* config.system.rollout_length
RolloutLength == 2
\* config.arch.num_evaluation
NumEvaluation == 2
\* config.system.num_updates_per_eval
NumUpdatesPerEval == 1
\* most agents an environment has
MaxAgents == 3

\* ------------------------------------------------------- input alphabets
\* sorted(transition.action.keys())
AgentIds == <<"agent_0", "agent_1">>
Agents == {AgentIds[i] : i \in 1..Len(AgentIds)}
NetKeys == {"network_a", "network_b"}
\* iteration order of table_priorities.items()
TableOrder == <<"table_a", "table_b">>
Tables == {TableOrder[i] : i \in 1..Len(TableOrder)}

\* What one environment step hands to add(): per-agent rewards and discounts.
StepInput(r0, r1, d0, d1) ==
    [rewards |-> [a \in Agents |-> IF a = "agent_0" THEN r0 ELSE r1],
     discounts |-> [a \in Agents |-> IF a = "agent_0" THEN d0 ELSE d1]]
StepInputs == {StepInput(1, 2, 1, 1), StepInput(3, 0, 1, 1), StepInput(1, 2, 0, 1)}
SelfDiscounts == {2}
NetKeyAssignments == [Agents -> NetKeys]

\* table_net_config: None, or for each table its required network keys, one
\* per agent slot and at most as many as there are agents.
NoneConfig == [none |-> TRUE, cfg |-> [t \in Tables |-> <<>>]]
Config(list_a, list_b) ==
    [none |-> FALSE,
     cfg |-> [t \in Tables |-> IF t = "table_a" THEN list_a ELSE list_b]]
TableNetConfigs ==
    { NoneConfig,
      Config(<<"network_a", "network_b">>, <<"network_b", "network_a">>),
      Config(<<"network_a", "network_a">>, <<"network_b">>) }

\* ------------------------------------------------------------ data shapes
EmptyDict == [a \in {} |-> 0]
ZeroDict == [a \in Agents |-> 0]
Observation(i) == [a \in Agents |-> [kind |-> "s", agent |-> a, step |-> i]]
Action(i) == [a \in Agents |-> [kind |-> "a", agent |-> a, step |-> i]]
Extras(keys, i) == [network_keys |-> keys, step |-> i]
NoExtras == [network_keys |-> EmptyDict, step |-> -1]

EmptyRow ==
    [observations |-> Observation(-1), extras |-> NoExtras,
     actions |-> Action(-1), rewards |-> ZeroDict, discounts |-> ZeroDict,
     n_step_return |-> ZeroDict, total_discount |-> ZeroDict]

Transition(s, e, a, r, d, s_, e_) ==
    [observation |-> s, extras |-> e, action |-> a, reward |-> r,
     discount |-> d, next_observation |-> s_, next_extras |-> e_]
NoTransition ==
    Transition(EmptyDict, NoExtras, EmptyDict, EmptyDict, EmptyDict,
               EmptyDict, NoExtras)
NoItem == [created |-> FALSE, priority |-> 0, trajectory |-> NoTransition]
NoItems == [t \in Tables |-> NoItem]

VARIABLES
    n_step,            \* self.n_step
    discount,          \* self._discount
    table_net_config,  \* self._table_net_config
    first_idx,         \* self._first_idx
    last_idx,          \* self._last_idx
    episode_steps,     \* self._writer.episode_steps
    history,           \* self._writer.history
    transition,        \* the transition formed by the last _write
    items,             \* the items created by the last _write, per table
    error,             \* exception raised by the last call, or "none"
    emitted,           \* windows <<first_idx, last_idx>> written this episode
    episode,           \* "new", "live" (add_first called) or "ended"
    was_reset          \* reset() has been called on this adder

adder_vars == <<n_step, discount, table_net_config, first_idx, last_idx,
                episode_steps, history, transition, items, error, emitted,
                episode, was_reset>>

VARIABLES
    capacity,          \* the Pipeline's maximum size
    pipeline_queue,    \* the entries the Pipeline holds, oldest first
    pipeline_stopped,  \* Pipeline.stop() has been called
    lifetime,          \* per actor: its ThreadLifetime's should_stop()
    actor_pc,          \* per actor: where rollout stands
    actor_step,        \* per actor: len(traj) in the current iteration
    actor_rollouts,    \* per actor: iterations of rollout's while loop done
    learner_pc,        \* where learner stands
    learner_eval,      \* learner: _eval_step
    learner_update,    \* learner: _update
    learner_queue,     \* the results learner has put and main not yet got
    received,          \* what pipeline.get has returned to learner, in order
    put_log,           \* the entries of the puts that returned, in order
    main_pc,           \* where run_experiment's main thread stands
    main_eval,         \* run_experiment: eval_step
    params_source,     \* per actor: the snapshot its ParamsSource holds
    actor_params,      \* per actor: rollout's `params`, the last one fetched
    learner_version,   \* learner: calls of learn() done on learner_state
    learner_source,    \* learner: sources updated by `for source in ...`
    main_results,      \* what learner_queue.get has returned to main, in order
    tracing            \* whether received and put_log are being recorded

sebulba_vars == <<capacity, pipeline_queue, pipeline_stopped, lifetime,
                  actor_pc, actor_step, actor_rollouts, learner_pc,
                  learner_eval, learner_update, learner_queue, received,
                  put_log, main_pc, main_eval, params_source, actor_params,
                  learner_version, learner_source, main_results, tracing>>

VARIABLES
    executor_config,        \* DefaultExecutor.config
    environment_agent_ids,  \* builder.attr.environment_spec.get_agent_ids()
    builder,                \* builder.attr as far as on_building_init uses it
    executor_error,         \* the exception on_building_init ended with
    executor_pc             \* where the building of the executor stands

executor_vars == <<executor_config, environment_agent_ids, builder,
                   executor_error, executor_pc>>

vars == <<adder_vars, sebulba_vars, executor_vars>>

\* ------------------------------------------------------ trajectory writer
Merge(row, data) ==
    [c \in DOMAIN row |-> IF c \in DOMAIN data THEN data[c] ELSE row[c]]

\* TrajectoryWriter.append: the data goes into the open step, or opens a new
\* one; a step that is not partial is finalised and counted.
WriterAppend(hist, es, data, partial_step) ==
    [history |-> IF Len(hist) > es
                    THEN [hist EXCEPT ![Len(hist)] = Merge(@, data)]
                    ELSE Append(hist, Merge(EmptyRow, data)),
     episode_steps |-> IF partial_step THEN es ELSE es + 1]

\* ------------------------------------------- _compute_cumulative_quantities
\* One leaf of the flattened structures: r and d are the window's rewards and
\* discounts (r[i + 1] is Python's r[i]), sd the broadcast self._discount.
\* The loop `for i in range(1, self._n_step)` from iteration i on.
RECURSIVE CumulativeLoop_DiscountFirst(_, _, _, _, _, _, _)
CumulativeLoop_DiscountFirst(r, d, sd, i, n, nsr, td) ==
    IF i >= n THEN <<nsr, td>>
    ELSE LET td2 == td * sd * d[i + 1]
             nsr1 == nsr + r[i + 1] * td2
         IN  CumulativeLoop_DiscountFirst(r, d, sd, i + 1, n, nsr1, td2)

RECURSIVE CumulativeLoop_NoEnvDiscount(_, _, _, _, _, _, _)
CumulativeLoop_NoEnvDiscount(r, d, sd, i, n, nsr, td) ==
    IF i >= n THEN <<nsr, td>>
    ELSE LET td1 == td * sd
             nsr1 == nsr + r[i + 1] * td1
         IN  CumulativeLoop_NoEnvDiscount(r, d, sd, i + 1, n, nsr1, td1)

RECURSIVE CumulativeLoop(_, _, _, _, _, _, _)
CumulativeLoop(r, d, sd, i, n, nsr, td) ==
    IF i >= n THEN <<nsr, td>>
    ELSE LET td1 == td * sd
             nsr1 == nsr + r[i + 1] * td1
             td2 == td1 * d[i + 1]
         IN  CumulativeLoop(r, d, sd, i + 1, n, nsr1, td2)

\* rewards, discounts: the slices history[first_idx:last_idx] of per-agent
\* structures; n: self._n_step.  Returns per-agent structures.
_compute_cumulative_quantities_EagerSelfDiscount(rewards, discounts, sd, n) ==
    LET leaf(a) ==
            LET r == [j \in 1..Len(rewards) |-> rewards[j][a]]
                d == [j \in 1..Len(discounts) |-> discounts[j][a]]
            IN  CumulativeLoop(r, d, sd, 1, n, r[1], d[1] * sd)
    IN  [n_step_return |-> [a \in Agents |-> leaf(a)[1]],
         total_discount |-> [a \in Agents |-> leaf(a)[2]]]

_compute_cumulative_quantities(rewards, discounts, sd, n) ==
    LET leaf(a) ==
            LET r == [j \in 1..Len(rewards) |-> rewards[j][a]]
                d == [j \in 1..Len(discounts) |-> discounts[j][a]]
            IN  CumulativeLoop(r, d, sd, 1, n, r[1], d[1])
    IN  [n_step_return |-> [a \in Agents |-> leaf(a)[1]],
         total_discount |-> [a \in Agents |-> leaf(a)[2]]]

\* --------------------------------------------------------------- _write
Max(S) == CHOOSE x \in S : \A y \in S : y <= x

\* {str(net_keys[agent]): agent for agent in agents}: a later agent
\* overwrites an earlier one with the same network key.
TransNetsAgent(net_keys) ==
    [k \in {net_keys[AgentIds[i]] : i \in 1..Len(AgentIds)} |->
        AgentIds[Max({i \in 1..Len(AgentIds) : net_keys[AgentIds[i]] = k})]]

\* all(elem in trans_nets_agent.keys() for elem in table_net_config[table])
AllKeysPresent_Equal(key_list, tna) ==
    {key_list[j] : j \in 1..Len(key_list)} = DOMAIN tna

AllKeysPresent(key_list, tna) ==
    \A j \in 1..Len(key_list) : key_list[j] \in DOMAIN tna

\* `not self._table_net_config or all(...)`
TableAccepts(config, table, tna) ==
    config.none \/ AllKeysPresent(config.cfg[table], tna)

\* The loop `for a_i, net_key in enumerate(self._table_net_config[table])`
\* and the Transition built from its dictionaries.
Reindexed(tr, key_list, tna) ==
    LET slots == {AgentIds[i] : i \in 1..Len(key_list)}
        slot_of(want) == CHOOSE i \in 1..Len(key_list) : AgentIds[i] = want
        cur(want) == tna[key_list[slot_of(want)]]
    IN  Transition([w \in slots |-> tr.observation[cur(w)]],
                   EmptyDict,
                   [w \in slots |-> tr.action[cur(w)]],
                   [w \in slots |-> tr.reward[cur(w)]],
                   [w \in slots |-> tr.discount[cur(w)]],
                   [w \in slots |-> tr.next_observation[cur(w)]],
                   EmptyDict)

\* self._priority_fns: one priority function per table, each a function of
\* the transition it is given.
PriorityFn(t, tr) ==
    IF t = "table_a" THEN 1 + tr.reward["agent_0"]
    ELSE 2 + tr.reward["agent_1"]

\* calculate_priorities(self._priority_fns, transition): every table's
\* function applied to the transition.
calculate_priorities(tr) == [t \in Tables |-> PriorityFn(t, tr)]

\* `for table, priority in table_priorities.items()`: the priority that goes
\* with the table into create_item.
ItemPriority_FirstTable(prio, table) == prio[TableOrder[1]]

ItemPriority(prio, table) == prio[table]

\* The loop over table_priorities.items() from table number i on.  acc holds
\* the items created so far, created_item and the exception raised, if any.
RECURSIVE TableLoop(_, _, _, _, _)
TableLoop(tr, config, prio, i, acc) ==
    IF i > Len(TableOrder) \/ acc.error # "none" THEN acc
    ELSE LET table == TableOrder[i]
             tna == TransNetsAgent(tr.extras.network_keys)
         IN  IF ~TableAccepts(config, table, tna)
                THEN TableLoop(tr, config, prio, i + 1, acc)
             ELSE IF config.none
                \* enumerate(None[table]): 'NoneType' object is not subscriptable
                THEN [acc EXCEPT !.created_item = TRUE, !.error = "TypeError"]
             ELSE TableLoop(tr, config, prio, i + 1,
                    [acc EXCEPT !.created_item = TRUE,
                                !.items[table] =
                                    [created |-> TRUE,
                                     priority |-> ItemPriority(prio, table),
                                     trajectory |->
                                        Reindexed(tr, config.cfg[table], tna)]])

\* After the loop: `if not created_item: raise ValidationError(...)`, unless
\* the loop itself raised.
RaisedBy_Silent(routed) == routed.error

RaisedBy(routed) ==
    IF routed.error # "none" THEN routed.error
    ELSE IF ~routed.created_item THEN "ValidationError"
    ELSE "none"

\* _write with first_idx = fi and last_idx = li: the writer's new history and
\* step count, the transition formed, the items created and the exception.
\* An empty window (first_idx >= last_idx, reachable only when n_step < 1 was
\* constructed) leaves nothing for `a[0]` in _compute_cumulative_quantities:
\* the call raises before anything is appended.
_write(fi, li, hist, es, sd, config) ==
    IF li - fi < 1
    THEN [history |-> hist, episode_steps |-> es,
          transition |-> NoTransition, items |-> NoItems,
          error |-> "IndexError"]
    ELSE
    LET first == hist[fi + 1]
        last == hist[li + 1]
        rewards == [j \in 1..(li - fi) |-> hist[fi + j].rewards]
        discounts == [j \in 1..(li - fi) |-> hist[fi + j].discounts]
        cq == _compute_cumulative_quantities(rewards, discounts, sd, li - fi)
        w == WriterAppend(hist, es,
                [n_step_return |-> cq.n_step_return,
                 total_discount |-> cq.total_discount],
                es <= li)
        newest == w.history[Len(w.history)]
        tr == Transition(first.observations, first.extras, first.actions,
                         newest.n_step_return, newest.total_discount,
                         last.observations, last.extras)
        routed == TableLoop(tr, config, calculate_priorities(tr), 1,
                    [items |-> NoItems, created_item |-> FALSE, error |-> "none"])
    IN  [history |-> w.history, episode_steps |-> w.episode_steps,
         transition |-> tr, items |-> routed.items,
         error |-> RaisedBy(routed)]

\* ------------------------------------------------------------ operations
\* f"Actor-{thread_id + d_idx * config.arch.n_threads_per_executor}", in the
\* order of thread_lifetimes
ActorOrder == <<"Actor-0", "Actor-1">>
Actors == {ActorOrder[i] : i \in 1..Len(ActorOrder)}

\* The parameters after u calls of learn(): actor and critic parameters.
Snapshot(u) == [actor_params |-> u, critic_params |-> u]
\* rollout has not fetched any parameters yet.
NoParams == [actor_params |-> -1, critic_params |-> -1]

\* builder.attr.network_sampling_setup: not set, or a list of rows.
Unset == [set |-> FALSE, rows |-> <<>>]

\* builder.attr before on_building_init: the component sets agents,
\* shared_weights, agent_net_keys, unique_net_keys and net_keys_to_ids
\* itself; network_sampling_setup it reads in one branch without having
\* set it, so that attribute is whatever was there before.
NoKeys == [a \in {} |-> 0]
NewBuilder(setup) ==
    [agents |-> <<>>, shared_weights |-> FALSE, agent_net_keys |-> NoKeys,
     network_sampling_setup |-> setup, unique_net_keys |-> <<>>,
     net_keys_to_ids |-> NoKeys]

\* No executor is being built.
ExecutorIdle ==
    /\ executor_config = [network_sampling_setup |-> "fixed_agent_networks",
                          shared_weights |-> TRUE]
    /\ environment_agent_ids = <<>>
    /\ builder = NewBuilder(Unset)
    /\ executor_error = "none"
    /\ executor_pc = "idle"

\* No experiment is running beside the adder.
SebulbaIdle ==
    /\ capacity = 1
    /\ pipeline_queue = <<>>
    /\ pipeline_stopped = FALSE
    /\ lifetime = [a \in Actors |-> FALSE]
    /\ actor_pc = [a \in Actors |-> "exit"]
    /\ actor_step = [a \in Actors |-> 0]
    /\ actor_rollouts = [a \in Actors |-> 0]
    /\ learner_pc = "exit"
    /\ learner_eval = 0
    /\ learner_update = 0
    /\ learner_queue = <<>>
    /\ received = <<>>
    /\ put_log = <<>>
    /\ main_pc = "exit"
    /\ main_eval = 0
    /\ params_source = [a \in Actors |-> Snapshot(0)]
    /\ actor_params = [a \in Actors |-> NoParams]
    /\ learner_version = 0
    /\ learner_source = 0
    /\ main_results = <<>>
    /\ tracing = TRUE

Init ==
    /\ n_step \in 1..MaxNStep
    /\ discount \in SelfDiscounts
    /\ table_net_config \in TableNetConfigs
    /\ first_idx = 0
    /\ last_idx = 0
    /\ episode_steps = 0
    /\ history = <<>>
    /\ transition = NoTransition
    /\ items = NoItems
    /\ error = "none"
    /\ emitted = <<>>
    /\ episode = "new"
    /\ was_reset = FALSE
    /\ SebulbaIdle
    /\ ExecutorIdle

\* Base adder, add_first: the first observation and its extras open step 0.
add_first(keys) ==
    /\ episode = "new"
    /\ history' = WriterAppend(history, episode_steps,
                     [observations |-> Observation(0), extras |-> Extras(keys, 0)],
                     TRUE).history
    /\ episode' = "live"
    /\ UNCHANGED <<n_step, discount, table_net_config, first_idx, last_idx,
                   episode_steps, transition, items, error, emitted,
                   was_reset>>
    /\ UNCHANGED <<sebulba_vars, executor_vars>>

\* Base adder, add: the step (action, reward, discount) completes the open
\* step, and the next observation with its extras opens step li.
BaseAddAppend(hist, es, li, rewards, discounts) ==
    LET keys == hist[Len(hist)].extras.network_keys
        step == WriterAppend(hist, es,
                   [actions |-> Action(li - 1), rewards |-> rewards,
                    discounts |-> discounts],
                   FALSE)
    IN  WriterAppend(step.history, step.episode_steps,
           [observations |-> Observation(li), extras |-> Extras(keys, li)],
           TRUE)

\* Base adder, end of episode: zeros complete the open step.
BaseFinalAppend(hist, es) ==
    WriterAppend(hist, es,
       [actions |-> Action(-1), rewards |-> ZeroDict, discounts |-> ZeroDict],
       FALSE)

\* `if self._writer.episode_steps >= self.n_step: self._first_idx += 1`
AddFirstIdx_Late(fi, es, n) == IF es > n THEN fi + 1 ELSE fi

AddFirstIdx(fi, es, n) == IF es >= n THEN fi + 1 ELSE fi

\* add: the window indices move, then the base adder appends the step and
\* writes.
add(rewards, discounts) ==
    /\ episode = "live"
    /\ error = "none"
    /\ last_idx < MaxEpisodeLen
    /\ LET fi == AddFirstIdx(first_idx, episode_steps, n_step)
           li == last_idx + 1
           next == BaseAddAppend(history, episode_steps, li, rewards, discounts)
       IN  \E w \in {_write(fi, li, next.history, next.episode_steps,
                            discount, table_net_config)} :
           /\ first_idx' = fi
           /\ last_idx' = li
           /\ history' = w.history
           /\ episode_steps' = w.episode_steps
           /\ transition' = w.transition
           /\ items' = w.items
           /\ error' = w.error
           /\ emitted' = IF w.error = "none"
                            THEN Append(emitted, <<fi, li>>) ELSE emitted
    /\ UNCHANGED <<n_step, discount, table_net_config, episode, was_reset>>
    /\ UNCHANGED <<sebulba_vars, executor_vars>>

\* `self._first_idx += 1` on entry of _write_last
WriteLastStart_NoIncrement(fi) == fi

WriteLastStart(fi) == fi + 1

\* What _write_last holds after a call of _write with first_idx = fi: the
\* writer, the last transition and items, the exception and the windows
\* written so far.
AfterWrite(fi, li, st, w) ==
    [first_idx |-> fi, history |-> w.history,
     episode_steps |-> w.episode_steps,
     transition |-> w.transition, items |-> w.items,
     error |-> w.error,
     emitted |-> IF w.error = "none"
                    THEN Append(st.emitted, <<fi, li>>)
                    ELSE st.emitted]

\* `self._first_idx += 1` after a _write that returned; an exception of
\* _write leaves the loop before first_idx is incremented.
RECURSIVE WriteLastLoop(_, _, _, _, _)
WriteLastStep(fi, li, sd, config, after) ==
    IF after.error # "none" THEN after
    ELSE WriteLastLoop(fi + 1, li, sd, config, after)

\* `while self._first_idx < self._last_idx: self._write(); ...`
WriteLastLoop_StopsEarly(fi, li, sd, config, st) ==
    IF ~(fi + 1 < li) THEN [st EXCEPT !.first_idx = fi]
    ELSE WriteLastStep(fi, li, sd, config,
            AfterWrite(fi, li, st,
                _write(fi, li, st.history, st.episode_steps, sd, config)))

WriteLastLoop(fi, li, sd, config, st) ==
    IF ~(fi < li) THEN [st EXCEPT !.first_idx = fi]
    ELSE WriteLastStep(fi, li, sd, config,
            AfterWrite(fi, li, st,
                _write(fi, li, st.history, st.episode_steps, sd, config)))

\* _write_last, called by the base adder after the final step of the episode.
write_last ==
    /\ episode = "live"
    /\ error = "none"
    /\ last_idx >= 1
    /\ LET final == BaseFinalAppend(history, episode_steps)
       IN  \E r \in {WriteLastLoop(WriteLastStart(first_idx), last_idx,
                    discount, table_net_config,
                    [first_idx |-> first_idx, history |-> final.history,
                     episode_steps |-> final.episode_steps,
                     transition |-> transition, items |-> items,
                     error |-> "none", emitted |-> emitted])} :
           /\ first_idx' = r.first_idx
           /\ history' = r.history
           /\ episode_steps' = r.episode_steps
           /\ transition' = r.transition
           /\ items' = r.items
           /\ error' = r.error
           /\ emitted' = r.emitted
    /\ episode' = "ended"
    /\ UNCHANGED <<n_step, discount, table_net_config, last_idx, was_reset>>
    /\ UNCHANGED <<sebulba_vars, executor_vars>>

\* reset: the base adder ends the writer's episode; the window is empty again.
reset_KeepFirstIdx ==
    /\ episode # "new"
    /\ first_idx' = first_idx
    /\ last_idx' = 0
    /\ episode_steps' = 0
    /\ history' = <<>>
    /\ transition' = NoTransition
    /\ items' = NoItems
    /\ error' = "none"
    /\ emitted' = <<>>
    /\ episode' = "new"
    /\ was_reset' = TRUE
    /\ UNCHANGED <<n_step, discount, table_net_config>>
    /\ UNCHANGED <<sebulba_vars, executor_vars>>

reset ==
    /\ episode # "new"
    /\ first_idx' = 0
    /\ last_idx' = 0
    /\ episode_steps' = 0
    /\ history' = <<>>
    /\ transition' = NoTransition
    /\ items' = NoItems
    /\ error' = "none"
    /\ emitted' = <<>>
    /\ episode' = "new"
    /\ was_reset' = TRUE
    /\ UNCHANGED <<n_step, discount, table_net_config>>
    /\ UNCHANGED <<sebulba_vars, executor_vars>>

Next ==
    \/ \E keys \in NetKeyAssignments : add_first(keys)
    \/ \E step \in StepInputs : add(step.rewards, step.discounts)
    \/ write_last
    \/ reset

Spec == Init /\ [][Next]_vars

\* __init__ stores whatever n_step it is given: lines 84-121 hold no check, so
\* an adder with n_step = 0 is constructed like any other.
InitAnyNStep ==
    /\ n_step \in 0..MaxNStep
    /\ discount \in SelfDiscounts
    /\ table_net_config \in TableNetConfigs
    /\ first_idx = 0
    /\ last_idx = 0
    /\ episode_steps = 0
    /\ history = <<>>
    /\ transition = NoTransition
    /\ items = NoItems
    /\ error = "none"
    /\ emitted = <<>>
    /\ episode = "new"
    /\ was_reset = FALSE
    /\ SebulbaIdle
    /\ ExecutorIdle

SpecAnyNStep == InitAnyNStep /\ [][Next]_vars

\* ================================================ sebulba: run_experiment
\* The adder is not part of the experiment: it stays as constructed.
AdderIdle ==
    /\ n_step = 1
    /\ discount = 2
    /\ table_net_config = NoneConfig
    /\ first_idx = 0
    /\ last_idx = 0
    /\ episode_steps = 0
    /\ history = <<>>
    /\ transition = NoTransition
    /\ items = NoItems
    /\ error = "none"
    /\ emitted = <<>>
    /\ episode = "new"
    /\ was_reset = FALSE

\* The arguments of rollout_pipeline.put: traj, timestep.observation,
\* next_dones and time_dict of the n-th iteration of actor a, whose traj holds
\* len transitions.
Entry(a, n, len) ==
    [traj |-> [actor |-> a, rollout |-> n, length |-> len],
     last_obs |-> [actor |-> a, step |-> n * RolloutLength],
     last_dones |-> [actor |-> a, step |-> n * RolloutLength],
     time_dict |-> [actor |-> a, rollout |-> n]]

\* received and put_log record the run for the properties about it; the
\* program keeps no such record, and a run may leave them unrecorded.
Trace(log, entry) == IF tracing THEN Append(log, entry) ELSE log

\* ------------------------------------------------------------- Pipeline
\* put blocks while the queue is at capacity.
PutReady(q, cap) == Len(q) < cap
\* put enqueues the 4-tuple at the end.
PipelinePut(q, entry) == Append(q, entry)
\* get(block=True) blocks while the queue is empty.
GetReady(q) == q # <<>>
\* get dequeues the oldest entry and returns it.
PipelineGet(q) == [entry |-> Head(q), queue |-> Tail(q)]

\* --------------------------------------------------------- ParamsSource
\* get returns the snapshot the slot holds; it never waits.
ParamsSourceGet(slot) == slot
\* update replaces the slot's contents as a whole; it never waits.
ParamsSourceUpdate(slot, new_params) == new_params

\* Pipeline.stop(): blocked calls are to unblock from now on.
Pipeline_stop ==
    /\ ~pipeline_stopped
    /\ pipeline_stopped' = TRUE
    /\ UNCHANGED <<capacity, pipeline_queue, lifetime, actor_pc, actor_step,
                   actor_rollouts, learner_pc, learner_eval, learner_update,
                   learner_queue, received, put_log, main_pc, main_eval>>
    /\ UNCHANGED <<params_source, actor_params, learner_version, learner_source, main_results>>
    /\ UNCHANGED <<tracing, adder_vars, executor_vars>>

\* --------------------------------------------------------------- rollout
\* `while not thread_lifetime.should_stop():` and `traj = []`
rollout_check(a) ==
    /\ actor_pc[a] = "top"
    /\ lifetime[a] \/ actor_rollouts[a] < MaxRollouts
    /\ actor_pc' = [actor_pc EXCEPT ![a] = IF lifetime[a] THEN "exit"
                                           ELSE "rollout"]
    /\ actor_step' = [actor_step EXCEPT ![a] = 0]
    /\ UNCHANGED <<capacity, pipeline_queue, pipeline_stopped, lifetime,
                   actor_rollouts, learner_pc, learner_eval, learner_update,
                   learner_queue, received, put_log, main_pc, main_eval>>
    /\ UNCHANGED <<params_source, actor_params, learner_version, learner_source, main_results>>
    /\ UNCHANGED <<tracing, adder_vars, executor_vars>>

\* One pass of `for _ in range(config.system.rollout_length)`:
\* `params = params_source.get()`, the environment step, and the step is
\* appended to traj; after the last pass the thread stands at the put.
rollout_step_FetchOnce(a) ==
    /\ actor_pc[a] = "rollout"
    /\ actor_step[a] < RolloutLength
    /\ actor_params' = [actor_params EXCEPT
                           ![a] = IF actor_step[a] = 0
                                     THEN ParamsSourceGet(params_source[a])
                                     ELSE @]
    /\ actor_step' = [actor_step EXCEPT ![a] = @ + 1]
    /\ actor_pc' = [actor_pc EXCEPT ![a] =
                       IF actor_step[a] + 1 = RolloutLength THEN "put"
                       ELSE "rollout"]
    /\ UNCHANGED <<capacity, pipeline_queue, pipeline_stopped, lifetime,
                   actor_rollouts, learner_pc, learner_eval, learner_update,
                   learner_queue, received, put_log, main_pc, main_eval>>
    /\ UNCHANGED <<params_source, learner_version, learner_source, main_results>>
    /\ UNCHANGED <<tracing, adder_vars, executor_vars>>

rollout_step_ChecksLifetime(a) ==
    /\ actor_pc[a] = "rollout"
    /\ actor_step[a] < RolloutLength
    /\ actor_params' = [actor_params EXCEPT
                           ![a] = ParamsSourceGet(params_source[a])]
    /\ actor_step' = [actor_step EXCEPT ![a] = @ + 1]
    /\ actor_pc' = [actor_pc EXCEPT ![a] =
                       IF actor_step[a] + 1 = RolloutLength \/ lifetime[a]
                           THEN "put"
                           ELSE "rollout"]
    /\ UNCHANGED <<capacity, pipeline_queue, pipeline_stopped, lifetime,
                   actor_rollouts, learner_pc, learner_eval, learner_update,
                   learner_queue, received, put_log, main_pc, main_eval>>
    /\ UNCHANGED <<params_source, learner_version, learner_source, main_results>>
    /\ UNCHANGED <<tracing, adder_vars, executor_vars>>

rollout_step(a) ==
    /\ actor_pc[a] = "rollout"
    /\ actor_step[a] < RolloutLength
    /\ actor_params' = [actor_params EXCEPT
                           ![a] = ParamsSourceGet(params_source[a])]
    /\ actor_step' = [actor_step EXCEPT ![a] = @ + 1]
    /\ actor_pc' = [actor_pc EXCEPT ![a] =
                       IF actor_step[a] + 1 = RolloutLength THEN "put"
                       ELSE "rollout"]
    /\ UNCHANGED <<capacity, pipeline_queue, pipeline_stopped, lifetime,
                   actor_rollouts, learner_pc, learner_eval, learner_update,
                   learner_queue, received, put_log, main_pc, main_eval>>
    /\ UNCHANGED <<params_source, learner_version, learner_source, main_results>>
    /\ UNCHANGED <<tracing, adder_vars, executor_vars>>

\* `rollout_pipeline.put(traj, timestep.observation, next_dones, time_dict)`
\* returns with the entry enqueued.
rollout_put_Unbounded(a) ==
    /\ actor_pc[a] = "put"
    /\ LET entry == Entry(a, actor_rollouts[a] + 1, actor_step[a])
       IN  /\ pipeline_queue' = PipelinePut(pipeline_queue, entry)
           /\ put_log' = Trace(put_log, entry)
    /\ actor_rollouts' = [actor_rollouts EXCEPT ![a] = @ + 1]
    /\ actor_pc' = [actor_pc EXCEPT ![a] = "top"]
    /\ UNCHANGED <<capacity, pipeline_stopped, lifetime, actor_step,
                   learner_pc, learner_eval, learner_update, learner_queue,
                   received, main_pc, main_eval>>
    /\ UNCHANGED <<params_source, learner_version, learner_source, main_results>>
    \* `params` is fetched anew before the next iteration uses it
    /\ actor_params' = [actor_params EXCEPT ![a] = NoParams]
    /\ UNCHANGED <<tracing, adder_vars, executor_vars>>

rollout_put_Dropped(a) ==
    /\ actor_pc[a] = "put"
    /\ PutReady(pipeline_queue, capacity)
    /\ LET entry == Entry(a, actor_rollouts[a] + 1, actor_step[a])
       IN  /\ pipeline_queue' = pipeline_queue
           /\ put_log' = Trace(put_log, entry)
    /\ actor_rollouts' = [actor_rollouts EXCEPT ![a] = @ + 1]
    /\ actor_pc' = [actor_pc EXCEPT ![a] = "top"]
    /\ UNCHANGED <<capacity, pipeline_stopped, lifetime, actor_step,
                   learner_pc, learner_eval, learner_update, learner_queue,
                   received, main_pc, main_eval>>
    /\ UNCHANGED <<params_source, learner_version, learner_source, main_results>>
    \* `params` is fetched anew before the next iteration uses it
    /\ actor_params' = [actor_params EXCEPT ![a] = NoParams]
    /\ UNCHANGED <<tracing, adder_vars, executor_vars>>

rollout_put(a) ==
    /\ actor_pc[a] = "put"
    /\ PutReady(pipeline_queue, capacity)
    /\ LET entry == Entry(a, actor_rollouts[a] + 1, actor_step[a])
       IN  /\ pipeline_queue' = PipelinePut(pipeline_queue, entry)
           /\ put_log' = Trace(put_log, entry)
    /\ actor_rollouts' = [actor_rollouts EXCEPT ![a] = @ + 1]
    /\ actor_pc' = [actor_pc EXCEPT ![a] = "top"]
    /\ UNCHANGED <<capacity, pipeline_stopped, lifetime, actor_step,
                   learner_pc, learner_eval, learner_update, learner_queue,
                   received, main_pc, main_eval>>
    /\ UNCHANGED <<params_source, learner_version, learner_source, main_results>>
    \* `params` is fetched anew before the next iteration uses it
    /\ actor_params' = [actor_params EXCEPT ![a] = NoParams]
    /\ UNCHANGED <<tracing, adder_vars, executor_vars>>

\* The same call, blocked on a full queue when the pipeline is stopped: it
\* returns without having enqueued, or raises and ends the thread.
rollout_put_cancelled_Never(a, outcome) ==
    /\ FALSE
    /\ UNCHANGED vars

rollout_put_cancelled(a, outcome) ==
    /\ actor_pc[a] = "put"
    /\ ~PutReady(pipeline_queue, capacity)
    /\ pipeline_stopped
    /\ actor_rollouts' = [actor_rollouts EXCEPT ![a] = @ + 1]
    /\ actor_pc' = [actor_pc EXCEPT ![a] = IF outcome = "return" THEN "top"
                                           ELSE "raised"]
    /\ UNCHANGED <<capacity, pipeline_queue, pipeline_stopped, lifetime,
                   actor_step, learner_pc, learner_eval, learner_update,
                   learner_queue, received, put_log, main_pc, main_eval>>
    /\ UNCHANGED <<params_source, learner_version, learner_source, main_results>>
    \* `params` is fetched anew before the next iteration uses it
    /\ actor_params' = [actor_params EXCEPT ![a] = NoParams]
    /\ UNCHANGED <<tracing, adder_vars, executor_vars>>

\* --------------------------------------------------------------- learner
\* `traj_batch, last_obs, last_dones, rollout_time = pipeline.get(block=True)`
\* returns, and learn() runs on what it returned.
learner_get_Newest ==
    /\ learner_pc = "get"
    /\ learner_version' = learner_version + 1
    /\ GetReady(pipeline_queue)
    /\ received' = Trace(received, pipeline_queue[Len(pipeline_queue)])
    /\ pipeline_queue' = SubSeq(pipeline_queue, 1, Len(pipeline_queue) - 1)
    /\ learner_pc' = "update"
    /\ UNCHANGED <<capacity, pipeline_stopped, lifetime, actor_pc, actor_step,
                   actor_rollouts, learner_eval, learner_update,
                   learner_queue, put_log, main_pc, main_eval>>
    /\ UNCHANGED <<params_source, actor_params, learner_source, main_results>>
    /\ UNCHANGED <<tracing, adder_vars, executor_vars>>

learner_get_NonBlocking ==
    /\ learner_pc = "get"
    /\ learner_version' = learner_version + 1
    /\ IF GetReady(pipeline_queue)
          THEN /\ received' = Trace(received, PipelineGet(pipeline_queue).entry)
               /\ pipeline_queue' = PipelineGet(pipeline_queue).queue
          ELSE /\ received' = Trace(received, Entry("none", 0, 0))
               /\ pipeline_queue' = pipeline_queue
    /\ learner_pc' = "update"
    /\ UNCHANGED <<capacity, pipeline_stopped, lifetime, actor_pc, actor_step,
                   actor_rollouts, learner_eval, learner_update,
                   learner_queue, put_log, main_pc, main_eval>>
    /\ UNCHANGED <<params_source, actor_params, learner_source, main_results>>
    /\ UNCHANGED <<tracing, adder_vars, executor_vars>>

learner_get ==
    /\ learner_pc = "get"
    /\ learner_version' = learner_version + 1
    /\ GetReady(pipeline_queue)
    /\ received' = Trace(received, PipelineGet(pipeline_queue).entry)
    /\ pipeline_queue' = PipelineGet(pipeline_queue).queue
    /\ learner_pc' = "update"
    /\ UNCHANGED <<capacity, pipeline_stopped, lifetime, actor_pc, actor_step,
                   actor_rollouts, learner_eval, learner_update,
                   learner_queue, put_log, main_pc, main_eval>>
    /\ UNCHANGED <<params_source, actor_params, learner_source, main_results>>
    /\ UNCHANGED <<tracing, adder_vars, executor_vars>>

\* The same call, blocked on an empty queue when the pipeline is stopped:
\* there is no entry to return, it raises and ends the thread.
learner_get_cancelled ==
    /\ learner_pc = "get"
    /\ ~GetReady(pipeline_queue)
    /\ pipeline_stopped
    /\ learner_pc' = "raised"
    /\ UNCHANGED <<capacity, pipeline_queue, pipeline_stopped, lifetime,
                   actor_pc, actor_step, actor_rollouts, learner_eval,
                   learner_update, learner_queue, received, put_log,
                   main_pc, main_eval>>
    /\ UNCHANGED <<params_source, actor_params, learner_version, learner_source, main_results>>
    /\ UNCHANGED <<tracing, adder_vars, executor_vars>>

\* One pass of `for source in params_sources`:
\* `source.update(unreplicated_params)` on the next source.  The last source
\* closes one pass of `for _update in range(num_updates_per_eval)`.
learner_update_params_ActorOnly ==
    /\ learner_pc = "update"
    /\ params_source' = [params_source EXCEPT
          ![ActorOrder[learner_source + 1]] =
              [@ EXCEPT !.actor_params = learner_version]]
    /\ IF learner_source + 1 < Len(ActorOrder)
          THEN /\ learner_source' = learner_source + 1
               /\ learner_update' = learner_update
               /\ learner_pc' = learner_pc
          ELSE /\ learner_source' = 0
               /\ learner_update' = learner_update + 1
               /\ learner_pc' = IF learner_update + 1 = NumUpdatesPerEval
                                   THEN "report" ELSE "get"
    /\ UNCHANGED <<capacity, pipeline_queue, pipeline_stopped, lifetime,
                   actor_pc, actor_step, actor_rollouts, learner_eval,
                   learner_queue, received, put_log, main_pc, main_eval>>
    /\ UNCHANGED <<actor_params, learner_version, main_results>>
    /\ UNCHANGED <<tracing, adder_vars, executor_vars>>

learner_update_params_FirstOnly ==
    /\ learner_pc = "update"
    /\ params_source' = [params_source EXCEPT
          ![ActorOrder[1]] =
              ParamsSourceUpdate(@, Snapshot(learner_version))]
    /\ IF learner_source + 1 < Len(ActorOrder)
          THEN /\ learner_source' = learner_source + 1
               /\ learner_update' = learner_update
               /\ learner_pc' = learner_pc
          ELSE /\ learner_source' = 0
               /\ learner_update' = learner_update + 1
               /\ learner_pc' = IF learner_update + 1 = NumUpdatesPerEval
                                   THEN "report" ELSE "get"
    /\ UNCHANGED <<capacity, pipeline_queue, pipeline_stopped, lifetime,
                   actor_pc, actor_step, actor_rollouts, learner_eval,
                   learner_queue, received, put_log, main_pc, main_eval>>
    /\ UNCHANGED <<actor_params, learner_version, main_results>>
    /\ UNCHANGED <<tracing, adder_vars, executor_vars>>

learner_update_params_Ahead ==
    /\ learner_pc = "update"
    /\ params_source' = [params_source EXCEPT
          ![ActorOrder[learner_source + 1]] =
              ParamsSourceUpdate(@, Snapshot(learner_version + 1))]
    /\ IF learner_source + 1 < Len(ActorOrder)
          THEN /\ learner_source' = learner_source + 1
               /\ learner_update' = learner_update
               /\ learner_pc' = learner_pc
          ELSE /\ learner_source' = 0
               /\ learner_update' = learner_update + 1
               /\ learner_pc' = IF learner_update + 1 = NumUpdatesPerEval
                                   THEN "report" ELSE "get"
    /\ UNCHANGED <<capacity, pipeline_queue, pipeline_stopped, lifetime,
                   actor_pc, actor_step, actor_rollouts, learner_eval,
                   learner_queue, received, put_log, main_pc, main_eval>>
    /\ UNCHANGED <<actor_params, learner_version, main_results>>
    /\ UNCHANGED <<tracing, adder_vars, executor_vars>>

learner_update_params ==
    /\ learner_pc = "update"
    /\ params_source' = [params_source EXCEPT
          ![ActorOrder[learner_source + 1]] =
              ParamsSourceUpdate(@, Snapshot(learner_version))]
    /\ IF learner_source + 1 < Len(ActorOrder)
          THEN /\ learner_source' = learner_source + 1
               /\ learner_update' = learner_update
               /\ learner_pc' = learner_pc
          ELSE /\ learner_source' = 0
               /\ learner_update' = learner_update + 1
               /\ learner_pc' = IF learner_update + 1 = NumUpdatesPerEval
                                   THEN "report" ELSE "get"
    /\ UNCHANGED <<capacity, pipeline_queue, pipeline_stopped, lifetime,
                   actor_pc, actor_step, actor_rollouts, learner_eval,
                   learner_queue, received, put_log, main_pc, main_eval>>
    /\ UNCHANGED <<actor_params, learner_version, main_results>>
    /\ UNCHANGED <<tracing, adder_vars, executor_vars>>

\* What learner puts on learner_queue at the end of evaluation block e:
\* the metrics of the block and learner_state, whose parameters are version v.
Result(e, v) == [eval_step |-> e, params |-> Snapshot(v)]

\* `learner_queue.put((episode_metrics, train_metrics, learner_state,
\* times_dict))` closes one pass of `for _eval_step in range(num_evaluation)`;
\* learner_queue is unbounded.
learner_report ==
    /\ learner_pc = "report"
    /\ learner_queue' = Append(learner_queue,
                               Result(learner_eval, learner_version))
    /\ learner_eval' = learner_eval + 1
    /\ learner_update' = 0
    /\ learner_pc' = IF learner_eval + 1 = NumEvaluation THEN "exit" ELSE "get"
    /\ UNCHANGED <<capacity, pipeline_queue, pipeline_stopped, lifetime,
                   actor_pc, actor_step, actor_rollouts, received, put_log,
                   main_pc, main_eval>>
    /\ UNCHANGED <<params_source, actor_params, learner_version, learner_source, main_results>>
    /\ UNCHANGED <<tracing, adder_vars, executor_vars>>

\* ------------------------------------------------------------------ main
\* `... = learner_queue.get()` in `for eval_step in range(num_evaluation)`,
\* with the evaluation that follows it.
main_get_result_Newest ==
    /\ main_pc = "results"
    /\ learner_queue # <<>>
    /\ main_results' = Append(main_results, learner_queue[Len(learner_queue)])
    /\ learner_queue' = SubSeq(learner_queue, 1, Len(learner_queue) - 1)
    /\ main_eval' = main_eval + 1
    /\ main_pc' = IF main_eval + 1 = NumEvaluation THEN "stop_lifetimes"
                  ELSE "results"
    /\ UNCHANGED <<capacity, pipeline_queue, pipeline_stopped, lifetime,
                   actor_pc, actor_step, actor_rollouts, learner_pc,
                   learner_eval, learner_update, received, put_log>>
    /\ UNCHANGED <<params_source, actor_params, learner_version, learner_source>>
    /\ UNCHANGED <<tracing, adder_vars, executor_vars>>

main_get_result ==
    /\ main_pc = "results"
    /\ learner_queue # <<>>
    /\ main_results' = Append(main_results, Head(learner_queue))
    /\ learner_queue' = Tail(learner_queue)
    /\ main_eval' = main_eval + 1
    /\ main_pc' = IF main_eval + 1 = NumEvaluation THEN "stop_lifetimes"
                  ELSE "results"
    /\ UNCHANGED <<capacity, pipeline_queue, pipeline_stopped, lifetime,
                   actor_pc, actor_step, actor_rollouts, learner_pc,
                   learner_eval, learner_update, received, put_log>>
    /\ UNCHANGED <<params_source, actor_params, learner_version, learner_source>>
    /\ UNCHANGED <<tracing, adder_vars, executor_vars>>

\* The lifetimes `for thread_lifetime in thread_lifetimes` has not reached.
NotStopped == {i \in 1..Len(ActorOrder) : ~lifetime[ActorOrder[i]]}

\* `thread_lifetime.stop()` for the next lifetime of the loop; the main
\* thread goes on once the loop is through.
main_stop_lifetime_OnlyLatest ==
    /\ main_pc = "stop_lifetimes"
    /\ IF NotStopped = {}
          THEN /\ main_pc' = "exit"
               /\ lifetime' = lifetime
          ELSE /\ main_pc' = main_pc
               /\ lifetime' = [a \in Actors |->
                     a = ActorOrder[CHOOSE i \in NotStopped :
                                      \A j \in NotStopped : i <= j]]
    /\ UNCHANGED <<capacity, pipeline_queue, pipeline_stopped, actor_pc,
                   actor_step, actor_rollouts, learner_pc, learner_eval,
                   learner_update, learner_queue, received, put_log,
                   main_eval>>
    /\ UNCHANGED <<params_source, actor_params, learner_version, learner_source, main_results>>
    /\ UNCHANGED <<tracing, adder_vars, executor_vars>>

main_stop_lifetime ==
    /\ main_pc = "stop_lifetimes"
    /\ IF NotStopped = {}
          THEN /\ main_pc' = "exit"
               /\ lifetime' = lifetime
          ELSE /\ main_pc' = main_pc
               /\ lifetime' = [lifetime EXCEPT
                     ![ActorOrder[CHOOSE i \in NotStopped :
                                    \A j \in NotStopped : i <= j]] = TRUE]
    /\ UNCHANGED <<capacity, pipeline_queue, pipeline_stopped, actor_pc,
                   actor_step, actor_rollouts, learner_pc, learner_eval,
                   learner_update, learner_queue, received, put_log,
                   main_eval>>
    /\ UNCHANGED <<params_source, actor_params, learner_version, learner_source, main_results>>
    /\ UNCHANGED <<tracing, adder_vars, executor_vars>>

\* run_experiment up to the start of the learner thread.
PipelineStarted ==
    /\ AdderIdle
    /\ ExecutorIdle
    /\ capacity \in 1..MaxCapacity
    /\ pipeline_queue = <<>>
    /\ pipeline_stopped = FALSE
    /\ lifetime = [a \in Actors |-> FALSE]
    /\ actor_pc = [a \in Actors |-> "top"]
    /\ actor_step = [a \in Actors |-> 0]
    /\ actor_rollouts = [a \in Actors |-> 0]
    /\ learner_pc = "get"
    /\ learner_eval = 0
    /\ learner_update = 0
    /\ learner_queue = <<>>
    /\ received = <<>>
    /\ put_log = <<>>
    /\ main_pc = "results"
    /\ main_eval = 0
    /\ params_source = [a \in Actors |-> Snapshot(0)]
    /\ actor_params = [a \in Actors |-> NoParams]
    /\ learner_version = 0
    /\ learner_source = 0
    /\ main_results = <<>>

InitPipeline ==
    /\ PipelineStarted
    /\ tracing = TRUE

\* The same start with received and put_log left unrecorded.
InitPipelineUntraced ==
    /\ PipelineStarted
    /\ tracing = FALSE

Actor(a) ==
    \/ rollout_check(a)
    \/ rollout_step(a)
    \/ rollout_put(a)
    \/ \E outcome \in {"return", "raise"} : rollout_put_cancelled(a, outcome)

Learner ==
    \/ learner_get
    \/ learner_get_cancelled
    \/ learner_update_params
    \/ learner_report

Main ==
    \/ main_get_result
    \/ main_stop_lifetime

NextPipeline ==
    \/ \E a \in Actors : Actor(a)
    \/ Learner
    \/ Main
    \/ Pipeline_stop

SpecPipeline == InitPipeline /\ [][NextPipeline]_vars

\* Every thread that can take a step eventually takes one.
SpecPipelineFair ==
    /\ InitPipelineUntraced
    /\ [][NextPipeline]_vars
    /\ \A a \in Actors : WF_vars(Actor(a))
    /\ WF_vars(Learner)
    /\ WF_vars(Main)

\* run_experiment as it is written: it starts the pipeline, the actor
\* threads and the learner, takes the results and stops the lifetimes; it
\* holds no call of pipeline.stop(), so no blocked call is ever cancelled.
ActorRun(a) ==
    \/ rollout_check(a)
    \/ rollout_step(a)
    \/ rollout_put(a)

LearnerRun ==
    \/ learner_get
    \/ learner_update_params
    \/ learner_report

NextRun ==
    \/ \E a \in Actors : ActorRun(a)
    \/ LearnerRun
    \/ Main

SpecRun == InitPipeline /\ [][NextRun]_vars

\* Every thread that can take a step eventually takes one.
SpecRunFair ==
    /\ InitPipelineUntraced
    /\ [][NextRun]_vars
    /\ \A a \in Actors : WF_vars(ActorRun(a))
    /\ WF_vars(LearnerRun)
    /\ WF_vars(Main)

\* ================================== executor: DefaultExecutor.on_building_init
\* Strings are kept by their parts: f"{kind}_{num}" for an agent id,
\* f"network_{kind}_{num}", f"network_{kind}" and f"network_{num}" for a
\* network key; "" and -1 stand for a part that is absent.
Name(prefix, kind, num) == [prefix |-> prefix, kind |-> kind, num |-> num]
AgentName(num) == Name("", "agent", num)

\* The order sort_str_num sorts by: the text first, the number after it.
KindRank(kind) == IF kind = "" THEN 0 ELSE 1
NameLess(x, y) ==
    \/ KindRank(x.kind) < KindRank(y.kind)
    \/ KindRank(x.kind) = KindRank(y.kind) /\ x.num < y.num

Insert(x, sorted) ==
    LET before == {i \in 1..Len(sorted) : ~NameLess(x, sorted[i])}
    IN  SubSeq(sorted, 1, Cardinality(before)) \o <<x>>
            \o SubSeq(sorted, Cardinality(before) + 1, Len(sorted))

RECURSIVE sort_str_num(_)
sort_str_num(list) ==
    IF list = <<>> THEN <<>>
    ELSE Insert(Head(list), sort_str_num(Tail(list)))

Range(list) == {list[i] : i \in 1..Len(list)}

RECURSIVE SetToList(_)
SetToList(S) ==
    IF S = {} THEN <<>>
    ELSE <<CHOOSE x \in S : TRUE>> \o SetToList(S \ {CHOOSE x \in S : TRUE})

\* What environment_spec.get_agent_ids() may return: the first n agents in
\* order, in reverse order, and with the first one named twice.
AgentsUpTo(n) == [i \in 1..n |-> AgentName(i - 1)]
Reversed(list) == [i \in 1..Len(list) |-> list[Len(list) + 1 - i]]
EnvironmentAgentIds ==
    UNION {{AgentsUpTo(n), Reversed(AgentsUpTo(n)),
            IF n >= 2 THEN <<AgentName(0)>> \o AgentsUpTo(n - 1)
                      ELSE AgentsUpTo(n)} : n \in 0..MaxAgents}

\* An entry of a sampling-setup row: a network key, or a list holding one.
Key(k) == [nested |-> FALSE, key |-> k]
Nested(k) == [nested |-> TRUE, key |-> k]
NetworkOfIndex(i) == Name("network", "", i)
\* f"network_{agent.split('_')[0]}" and f"network_{agent}"
NetworkOfType(agent) == Name("network", agent.kind, -1)
NetworkOfAgent(agent) == Name("network", agent.kind, agent.num)

\* builder.attr.network_sampling_setup when set: a list of rows.
Setup(rows) == [set |-> TRUE, rows |-> rows]
ListSetups ==
    { Setup(<<>>),
      Setup(<< <<>> >>),
      Setup(<< <<Key(NetworkOfIndex(0))>> >>),
      Setup(<< <<Key(NetworkOfIndex(0)), Key(NetworkOfIndex(1))>> >>),
      Setup(<< <<Key(NetworkOfIndex(0))>>, <<Key(NetworkOfIndex(1))>> >>),
      Setup(<< <<Key(NetworkOfIndex(0)), Key(NetworkOfIndex(1))>>,
               <<Key(NetworkOfIndex(1)), Key(NetworkOfIndex(0))>> >>),
      Setup(<< <<Key(NetworkOfIndex(0)), Key(NetworkOfIndex(1))>>,
               <<Key(NetworkOfIndex(0))>> >>),
      Setup(<< <<Key(NetworkOfIndex(0))>>,
               <<Key(NetworkOfIndex(0)), Key(NetworkOfIndex(1))>> >>) }

\* ExecutorProcessConfig: network_sampling_setup is a member of
\* enums.NetworkSampler, some other value that is no list, or a list.
SamplerKinds ==
    {"fixed_agent_networks", "random_agent_networks", "other", "list"}
ExecutorProcessConfigs ==
    [network_sampling_setup : SamplerKinds, shared_weights : BOOLEAN]

Raise(b, err) == [builder |-> b, error |-> err]

\* Lines 113-122: `all_samples` as a set, unique_net_keys and net_keys_to_ids.
AllSamples(rows) == UNION {Range(rows[i]) : i \in 1..Len(rows)}
UniqueNetKeys(rows) ==
    sort_str_num(SetToList({s.key : s \in AllSamples(rows)}))
NetKeysToIds(unique) ==
    [k \in Range(unique) |->
        (CHOOSE i \in 1..Len(unique) : unique[i] = k) - 1]

\* Lines 102-122: the checks on what the branches have set, then the unique
\* keys.  len(setup[0]) of an empty setup is an IndexError, x % 0 a
\* ZeroDivisionError, and set() of a list of lists a TypeError.
SampleLength(rows) == Len(rows[1])
RowsAlike(rows) ==
    \A i \in 2..Len(rows) : Len(rows[i]) = SampleLength(rows)

Checks_AnyRows(agent_ids, b) ==
    LET rows == b.network_sampling_setup.rows
        n == Cardinality(DOMAIN b.agent_net_keys)
    IN  IF rows = <<>> THEN Raise(b, "IndexError")
        ELSE IF Len(agent_ids) # n THEN Raise(b, "AssertionError")
        ELSE IF SampleLength(rows) = 0 THEN Raise(b, "ZeroDivisionError")
        ELSE IF n % SampleLength(rows) # 0 THEN Raise(b, "AssertionError")
        ELSE IF \E s \in AllSamples(rows) : s.nested
            THEN Raise(b, "TypeError")
        ELSE [builder |->
                 [b EXCEPT !.unique_net_keys = UniqueNetKeys(rows),
                           !.net_keys_to_ids =
                               NetKeysToIds(UniqueNetKeys(rows))],
              error |-> "none"]

Checks(agent_ids, b) ==
    LET rows == b.network_sampling_setup.rows
        n == Cardinality(DOMAIN b.agent_net_keys)
    IN  IF rows = <<>> THEN Raise(b, "IndexError")
        ELSE IF Len(agent_ids) # n THEN Raise(b, "AssertionError")
        ELSE IF SampleLength(rows) = 0 THEN Raise(b, "ZeroDivisionError")
        ELSE IF n % SampleLength(rows) # 0 THEN Raise(b, "AssertionError")
        ELSE IF ~RowsAlike(rows) THEN Raise(b, "AssertionError")
        ELSE IF \E s \in AllSamples(rows) : s.nested
            THEN Raise(b, "TypeError")
        ELSE [builder |->
                 [b EXCEPT !.unique_net_keys = UniqueNetKeys(rows),
                           !.net_keys_to_ids =
                               NetKeysToIds(UniqueNetKeys(rows))],
              error |-> "none"]

\* Lines 55-70, fixed_agent_networks: one network per agent type if the
\* weights are shared, one per agent otherwise; the setup is one row.
FixedAgentNetKeys(agents, shared) ==
    [a \in Range(agents) |->
        IF shared THEN NetworkOfType(a) ELSE NetworkOfAgent(a)]
SortedKeys(keys) == sort_str_num(SetToList(DOMAIN keys))
FixedSetup(keys) ==
    Setup(<< [i \in 1..Len(SortedKeys(keys)) |->
                 Key(keys[SortedKeys(keys)[i]])] >>)

\* Lines 71-90, random_agent_networks: network_i for agents[i]; the setup is
\* one row whose entries are one-element lists.
RandomAgentNetKeys(agents) ==
    [a \in Range(agents) |->
        NetworkOfIndex(Max({i \in 1..Len(agents) : agents[i] = a}) - 1)]
RandomSetup(keys) ==
    Setup(<< [i \in 1..Len(SortedKeys(keys)) |->
                 Nested(keys[SortedKeys(keys)[i]])] >>)

\* Lines 95-100: sample_new_agent_keys gives some of the agents keys of the
\* setup it is handed, or raises.
SampledAgentNetKeys(agents, setup) ==
    {[raised |-> TRUE, keys |-> NoKeys]} \cup
    {[raised |-> FALSE, keys |-> f] :
        f \in UNION {[D -> {s.key : s \in AllSamples(setup.rows)}] :
                        D \in SUBSET Range(agents)}}

\* on_building_init as a whole: what it leaves in builder.attr, and the
\* exception it ends with.
OnBuildingInit(config, agent_ids, b0, sampled) ==
    LET agents == sort_str_num(agent_ids)
        b == [b0 EXCEPT !.agents = agents,
                        !.shared_weights = config.shared_weights]
        kind == config.network_sampling_setup
    IN  IF kind = "fixed_agent_networks"
            THEN Checks(agent_ids,
                    [b EXCEPT
                       !.agent_net_keys =
                           FixedAgentNetKeys(agents, config.shared_weights),
                       !.network_sampling_setup =
                           FixedSetup(FixedAgentNetKeys(
                               agents, config.shared_weights))])
        ELSE IF kind = "random_agent_networks"
            THEN IF b.shared_weights
                    THEN Raise(b, "ValueError")
                    ELSE Checks(agent_ids,
                            [b EXCEPT
                               !.agent_net_keys = RandomAgentNetKeys(agents),
                               !.network_sampling_setup =
                                   RandomSetup(RandomAgentNetKeys(agents))])
        ELSE IF kind # "list"
            THEN Raise(b, "ValueError")
        ELSE IF ~b.network_sampling_setup.set
            THEN Raise(b, "AttributeError")
        ELSE IF sampled.raised
            THEN Raise(b, "SamplingError")
        ELSE Checks(agent_ids, [b EXCEPT !.agent_net_keys = sampled.keys])

on_building_init ==
    /\ executor_pc = "building"
    /\ \E sampled \in
          IF executor_config.network_sampling_setup = "list"
                /\ builder.network_sampling_setup.set
              THEN SampledAgentNetKeys(sort_str_num(environment_agent_ids),
                                       builder.network_sampling_setup)
              ELSE {[raised |-> TRUE, keys |-> NoKeys]} :
          /\ builder' = OnBuildingInit(executor_config, environment_agent_ids,
                                       builder, sampled).builder
          /\ executor_error' = OnBuildingInit(executor_config,
                                   environment_agent_ids, builder,
                                   sampled).error
    /\ executor_pc' = "done"
    /\ UNCHANGED <<executor_config, environment_agent_ids>>
    /\ UNCHANGED <<adder_vars, sebulba_vars>>

InitExecutor ==
    /\ AdderIdle
    /\ SebulbaIdle
    /\ executor_config \in ExecutorProcessConfigs
    /\ environment_agent_ids \in EnvironmentAgentIds
    /\ builder \in {NewBuilder(setup) : setup \in {Unset} \cup ListSetups}
    /\ executor_error = "none"
    /\ executor_pc = "building"

NextExecutor == on_building_init

SpecExecutor == InitExecutor /\ [][NextExecutor]_vars

\* ================================================================ claims
\* The window <<first_idx, last_idx>> of the last call of _write: an exception
\* leaves the indices where they were, otherwise it is the last one recorded.
LastWindow ==
    IF error # "none" THEN <<first_idx, last_idx>> ELSE emitted[Len(emitted)]
Written == transition # NoTransition
WindowLen == LastWindow[2] - LastWindow[1]
\* reward and environment discount of agent a at position i (from 0) of the
\* last window
WinReward(a, i) == history[LastWindow[1] + i + 1].rewards[a]
WinDiscount(a, i) == history[LastWindow[1] + i + 1].discounts[a]
EpisodeDone == episode = "ended" /\ error = "none"
Size(w) == w[2] - w[1]
Min2(x, y) == IF x <= y THEN x ELSE y

RECURSIVE Power(_, _)
Power(g, e) == IF e <= 0 THEN 1 ELSE g * Power(g, e - 1)

\* product over j < i of (self_discount * discount[j])
RECURSIVE DiscountBefore(_, _)
DiscountBefore(a, i) ==
    IF i = 0 THEN 1
    ELSE DiscountBefore(a, i - 1) * (discount * WinDiscount(a, i - 1))

\* sum over i < k of reward[i] * DiscountBefore(i)
RECURSIVE ReturnUpTo(_, _)
ReturnUpTo(a, k) ==
    IF k = 0 THEN 0
    ELSE ReturnUpTo(a, k - 1) + WinReward(a, k - 1) * DiscountBefore(a, k - 1)

\* product of the environment discounts discount[0..k-1]
RECURSIVE EnvDiscountProduct(_, _)
EnvDiscountProduct(a, k) ==
    IF k = 0 THEN 1 ELSE EnvDiscountProduct(a, k - 1) * WinDiscount(a, k - 1)

\* C1: in every reachable state of the adder 0 <= first_idx <= last_idx and
\* last_idx - first_idx <= n_step.
C1_WindowInvariant ==
    /\ 0 <= first_idx
    /\ first_idx <= last_idx
    /\ last_idx - first_idx <= n_step

\* C1 witness: a full window that has already left step 0 behind.
C1_Witness ==
    /\ episode = "live"
    /\ first_idx >= 1
    /\ last_idx - first_idx = n_step

\* C2: for a window of length k, 1 <= k <= n_step, the n-step return of every
\* agent is the sum over i < k of reward[i] times the product over j < i of
\* (self_discount * discount[j]).
C2_NStepReturn ==
    Written =>
        /\ 1 <= WindowLen
        /\ WindowLen <= n_step
        /\ \A a \in Agents : transition.reward[a] = ReturnUpTo(a, WindowLen)

\* C2 witness: a three-step window whose later rewards all count.
C2_Witness ==
    /\ Written
    /\ WindowLen = 3
    /\ \A i \in 0..2 : WinDiscount("agent_0", i) = 1 /\ WinReward("agent_0", i) = 3
    /\ transition.reward["agent_0"] = 3 + 3 * discount + 3 * discount * discount

\* C3: for a window of length k the cumulative discount of every agent is
\* self_discount^(k-1) times the product of the k environment discounts.
C3_TotalDiscount ==
    Written =>
        \A a \in Agents :
            transition.discount[a] =
                Power(discount, WindowLen - 1) * EnvDiscountProduct(a, WindowLen)

\* C3 witness: a three-step window with no terminal discount carries the
\* self discount twice.
C3_Witness ==
    /\ Written
    /\ WindowLen = 3
    /\ discount > 1
    /\ transition.discount["agent_1"] = discount * discount

\* C4 as stated: an episode of T adds and _write_last with n_step <= T emits
\* exactly T transitions.
C4_Original ==
    (EpisodeDone /\ n_step <= last_idx) => Len(emitted) = last_idx

\* C4 amended: an episode of T adds and _write_last with n_step = N <= T emits
\* exactly T + N - 1 transitions, T by the adds and N - 1 by _write_last; with
\* n_step = 3 and T = 5 that is 7.
C4_Amended ==
    (EpisodeDone /\ n_step <= last_idx) =>
        Len(emitted) = last_idx + n_step - 1

\* C4 witness: the episode of length 5 with n_step = 3 has emitted 7.
C4_Witness ==
    /\ EpisodeDone
    /\ n_step = 3
    /\ last_idx = 5
    /\ Len(emitted) = 7

\* C5: with n_step = N <= T the window sizes in emission order are
\* 1, ..., N-1, then T-N+1 times N, then N-1, ..., 1, and the growing head
\* windows all start at step 0.
C5_WindowSizes ==
    (EpisodeDone /\ n_step <= last_idx) =>
        /\ Len(emitted) = last_idx + n_step - 1
        /\ \A i \in 1..Len(emitted) :
              Size(emitted[i]) =
                  IF i < n_step THEN i
                  ELSE IF i <= last_idx THEN n_step
                  ELSE n_step - (i - last_idx)
        /\ \A i \in 1..(n_step - 1) : emitted[i][1] = 0

\* C5 witness: head, full and tail windows all occur.
C5_Witness ==
    /\ EpisodeDone
    /\ n_step = 3
    /\ last_idx = 5
    /\ [i \in 1..Len(emitted) |-> Size(emitted[i])] = <<1, 2, 3, 3, 3, 2, 1>>

\* The windows written by _write_last: those after the one of each add.
TailWindows == SubSeq(emitted, last_idx + 1, Len(emitted))
TailSizes == [i \in 1..Len(TailWindows) |-> Size(TailWindows[i])]

\* C6 as stated: after the final add of any episode _write_last emits the
\* windows of sizes n_step-1, n_step-2, ..., 1.
C6_Original ==
    EpisodeDone => TailSizes = [i \in 1..(n_step - 1) |-> n_step - i]

\* C6 amended: after the final add of an episode of T adds _write_last
\* increments first_idx once and writes while first_idx < last_idx, emitting
\* the windows of sizes m-1, m-2, ..., 1 in that order, where
\* m = min(n_step, T); all of them end at last_idx.
C6_Amended ==
    EpisodeDone =>
        LET m == Min2(n_step, last_idx)
        IN  /\ TailSizes = [i \in 1..(m - 1) |-> m - i]
            /\ \A i \in 1..Len(TailWindows) : TailWindows[i][2] = last_idx

\* C6 witness: an episode shorter than n_step whose tail is not empty.
C6_Witness ==
    /\ EpisodeDone
    /\ last_idx = 2
    /\ n_step = 3
    /\ TailSizes = <<1>>

\* C7: with table_net_config unset every written transition is submitted to
\* every table and _write completes without error.
C7_BroadcastWhenUnset ==
    (Written /\ table_net_config.none) =>
        /\ error = "none"
        /\ \A t \in Tables : items[t].created

\* The network keys recorded for the agents of the last transition, and the
\* keys table t requires.
RecordedKeys == {transition.extras.network_keys[a] : a \in Agents}
RequiredKeys(t) ==
    {table_net_config.cfg[t][j] : j \in 1..Len(table_net_config.cfg[t])}

\* C8: with table_net_config set, a transition none of whose tables' required
\* keys are all recorded makes _write raise ValidationError with no item
\* created; every _write creates at least one item or raises.
C8_UnroutedRaises ==
    Written =>
        /\ (/\ ~table_net_config.none
            /\ \A t \in Tables : ~(RequiredKeys(t) \subseteq RecordedKeys))
           => (error = "ValidationError" /\ \A t \in Tables : ~items[t].created)
        /\ (error # "none" \/ \E t \in Tables : items[t].created)

\* C8 witness: a write that matched no table.
C8_Witness ==
    /\ Written
    /\ ~table_net_config.none
    /\ \A t \in Tables : ~(RequiredKeys(t) \subseteq RecordedKeys)
    /\ error = "ValidationError"

\* C9: with table_net_config set, _write creates an item in table t exactly
\* when every key table t requires is among the recorded network keys, for
\* each table on its own.
C9_SetContainment ==
    (Written /\ ~table_net_config.none) =>
        \A t \in Tables :
            items[t].created <=> (RequiredKeys(t) \subseteq RecordedKeys)

\* C9 witness: one table accepts the transition and the other does not.
C9_Witness ==
    /\ Written
    /\ ~table_net_config.none
    /\ items["table_a"].created
    /\ ~items["table_b"].created
    /\ RequiredKeys("table_a") \subseteq RecordedKeys

\* C10: the transition submitted to a table is a permutation of the original
\* per-agent data: slot i holds the observation, action, reward, discount and
\* next observation of an agent that was assigned the table's i-th key, and
\* no agent's data is in two slots, also when agents share a network key.
C10_Permutation ==
    (Written /\ ~table_net_config.none) =>
        \A t \in Tables :
            items[t].created =>
                LET tr == items[t].trajectory
                    list == table_net_config.cfg[t]
                    src(i) == tr.observation[AgentIds[i]].agent
                IN  /\ DOMAIN tr.observation = {AgentIds[i] : i \in 1..Len(list)}
                    /\ \A i \in 1..Len(list) :
                          /\ transition.extras.network_keys[src(i)] = list[i]
                          /\ tr.observation[AgentIds[i]] = transition.observation[src(i)]
                          /\ tr.action[AgentIds[i]] = transition.action[src(i)]
                          /\ tr.reward[AgentIds[i]] = transition.reward[src(i)]
                          /\ tr.discount[AgentIds[i]] = transition.discount[src(i)]
                          /\ tr.next_observation[AgentIds[i]] =
                                transition.next_observation[src(i)]
                    /\ \A i, j \in 1..Len(list) : src(i) = src(j) => i = j

\* C11: every transition submitted to a table carries the observation, extras
\* and action of the window's first step and the next observation and next
\* extras of its last step; its extras are the first step's, not empty.
C11_FirstAndLastStep ==
    (Written /\ ~table_net_config.none) =>
        \A t \in Tables :
            items[t].created =>
                LET tr == items[t].trajectory
                    f == LastWindow[1]
                    l == LastWindow[2]
                IN  /\ \A w \in DOMAIN tr.observation :
                          /\ tr.observation[w].step = f
                          /\ tr.action[w].step = f
                          /\ tr.next_observation[w].step = l
                    /\ tr.extras = history[f + 1].extras
                    /\ tr.next_extras = history[l + 1].extras

\* C12: an adder with n_step < 1 is rejected at construction, so no adder
\* with n_step < 1 ever takes an add(): its window indices never move.
C12_NoAddBelowOne ==
    (n_step < 1) => (first_idx = 0 /\ last_idx = 0)

\* The windows a freshly constructed adder writes for an episode of k adds,
\* followed by those of _write_last when the episode is done.
AddWindows(n, k) == [j \in 1..k |-> <<IF j > n THEN j - n ELSE 0, j>>]
LastWindows(n, k) ==
    [i \in 1..(Min2(n, k) - 1) |-> <<(IF k > n THEN k - n ELSE 0) + i, k>>]
EpisodeWindows(n, k, done) ==
    IF done THEN AddWindows(n, k) \o LastWindows(n, k) ELSE AddWindows(n, k)

\* C13: reset() leaves first_idx = last_idx = 0 whatever state it is called
\* in, and the windows written by an episode are those of the same episode on
\* a fresh adder, whether or not the adder was used and reset before.
C13_ResetRestarts ==
    /\ (was_reset /\ episode = "new") =>
           (first_idx = 0 /\ last_idx = 0 /\ emitted = <<>>)
    /\ error = "none" =>
           emitted = EpisodeWindows(n_step, last_idx, episode = "ended")

\* C13 witness: a complete episode recorded after a reset.
C13_Witness ==
    /\ was_reset
    /\ episode = "ended"
    /\ error = "none"
    /\ n_step = 2
    /\ last_idx = 3
    /\ emitted = << <<0, 1>>, <<0, 2>>, <<1, 3>>, <<2, 3>> >>

\* C14: after the k-th add() of an episode (k steps recorded by the writer)
\* last_idx = k and first_idx = max(0, k - n_step).
C14_IndicesAfterAdd ==
    (episode = "live" /\ episode_steps >= 1) =>
        /\ last_idx = episode_steps
        /\ first_idx = IF episode_steps > n_step
                           THEN episode_steps - n_step ELSE 0

\* C14 witness: adds before and after the window filled up.
C14_Witness ==
    /\ episode = "live"
    /\ n_step = 2
    /\ episode_steps = 4
    /\ first_idx = 2
    /\ emitted = << <<0, 1>>, <<0, 2>>, <<1, 3>>, <<2, 4>> >>

\* C15: whenever _write runs the effective n-step last_idx - first_idx lies
\* in 1..n_step, and it is exactly n_step for the write of the k-th add of an
\* episode when k >= n_step.
C15_EffectiveNStep ==
    /\ \A i \in 1..Len(emitted) :
          /\ Size(emitted[i]) \in 1..n_step
          /\ (i <= last_idx /\ i >= n_step) => Size(emitted[i]) = n_step
    /\ (episode = "live" /\ last_idx >= 1) =>
          /\ (last_idx - first_idx) \in 1..n_step
          /\ (last_idx >= n_step) => (last_idx - first_idx = n_step)

\* C16: with n_step = 1 every add() writes the one-step transition
\* (s_t, a_t, r_t, d_t, s_t+1), with the step's own reward and discount and no
\* self-discount, and _write_last writes nothing.
C16_OneStep ==
    (n_step = 1 /\ error = "none") =>
        /\ emitted = [i \in 1..last_idx |-> <<i - 1, i>>]
        /\ Written =>
              \A a \in Agents :
                  /\ transition.observation[a].step = LastWindow[1]
                  /\ transition.action[a].step = LastWindow[1]
                  /\ transition.reward[a] = WinReward(a, 0)
                  /\ transition.discount[a] = WinDiscount(a, 0)
                  /\ transition.next_observation[a].step = LastWindow[1] + 1

\* C16 witness: a finished one-step episode of three adds, the last with a
\* discount of 1 that a self-discount would have doubled.
C16_Witness ==
    /\ n_step = 1
    /\ episode = "ended"
    /\ error = "none"
    /\ last_idx = 3
    /\ Len(emitted) = 3
    /\ \E a \in Agents : transition.discount[a] = 1 /\ transition.reward[a] = 3

\* C17: the Pipeline never holds more than capacity entries, and while it
\* holds capacity entries no put completes: the put_log grows only in a step
\* that starts with room in the queue.
C17_Capacity ==
    [][/\ Len(pipeline_queue') <= capacity'
       /\ (Len(pipeline_queue) >= capacity) => (put_log' = put_log)]_vars

\* C17 witness: the queue is full and every actor stands blocked in put.
C17_Witness ==
    /\ ~pipeline_stopped
    /\ Len(pipeline_queue) = capacity
    /\ \A a \in Actors : actor_pc[a] = "put"

\* C18: the entries got by the learner followed by the entries still queued
\* are the entries put, in the order the puts completed: nothing is lost,
\* duplicated, reordered or altered.
C18_Fifo ==
    put_log = received \o pipeline_queue

\* C18 witness: the learner has got the entries of both actors, the second
\* actor's first, while two more wait in the queue.
C18_Witness ==
    /\ Len(received) >= 2
    /\ received[1].traj.actor = "Actor-1"
    /\ received[2].traj.actor = "Actor-0"
    /\ Len(pipeline_queue) = 2

\* C19: pipeline.get(block=True) returns only from a non-empty queue, with
\* an entry that a completed put enqueued.
C19_GetWaitsForPut ==
    [][(received' # received) =>
          /\ pipeline_queue # <<>>
          /\ \E i \in 1..Len(put_log) : received'[Len(received')] = put_log[i]
          /\ Len(received') <= Len(put_log)]_vars

\* C19 witness: the learner stands blocked in get on an empty queue, after
\* an earlier get has returned.
C19_Witness ==
    /\ learner_pc = "get"
    /\ pipeline_queue = <<>>
    /\ ~pipeline_stopped
    /\ Len(received) >= 1

Sizes == [i \in 1..Len(emitted) |-> Size(emitted[i])]

C29_ItemPriority ==
    Written =>
        \A t \in Tables :
            items[t].created => items[t].priority = PriorityFn(t, transition)

\* C29 witness: one write has created an item in each table, with different
\* priorities.
C29_Witness ==
    /\ Written
    /\ \A t \in Tables : items[t].created
    /\ items["table_a"].priority # items["table_b"].priority

\* The place of actor a's ParamsSource in params_sources.
SourceIndex(a) == CHOOSE i \in 1..Len(ActorOrder) : ActorOrder[i] = a

\* The number of the learner's latest update whose source.update(...) on
\* actor a's ParamsSource has returned; 0 while none has.
LastUpdate(a) ==
    IF learner_pc = "update" /\ SourceIndex(a) > learner_source
        THEN learner_version - 1
        ELSE learner_version

\* actor a passes `params = params_source.get()` in this step.
Fetches(a) == actor_pc[a] = "rollout" /\ actor_step'[a] = actor_step[a] + 1

\* C21: every params_source.get() returns the argument of the latest update
\* completed on that source, and the snapshot given at construction while no
\* update has been made.
C21_GetReturnsLatest ==
    [][\A a \in Actors :
          Fetches(a) => actor_params'[a] = Snapshot(LastUpdate(a))]_vars

\* C21 witness: within one iteration an actor has fetched the snapshot of the
\* first update, which its source did not hold at construction, while the
\* other actor still works with the constructed one.
C21_Witness ==
    \E a, b \in Actors :
        /\ actor_pc[a] = "rollout"
        /\ actor_params[a] = Snapshot(1)
        /\ actor_params[b] = Snapshot(0)

C23_OneWay ==
    /\ \A a \in Actors : ~lifetime[a]
    /\ [][\A a \in Actors :
             /\ lifetime[a] => lifetime'[a]
             /\ lifetime'[a] # lifetime[a] => main_pc = "stop_lifetimes"]_vars

\* C23 witness: every lifetime has been stopped, the main thread has gone on,
\* an actor has read its flag and left, and the flags still read True.
C23_Witness ==
    /\ main_pc = "exit"
    /\ \A a \in Actors : lifetime[a]
    /\ \E a \in Actors : actor_pc[a] = "exit"

\* C24: the learner thread has left only when every actor's lifetime has been
\* stopped and the pipeline has been emptied or stopped.
C24_ShutdownOrder ==
    learner_pc = "exit" =>
        /\ \A a \in Actors : lifetime[a]
        /\ pipeline_queue = <<>> \/ pipeline_stopped

\* C25: once stop() has been called on every ThreadLifetime, every actor
\* thread eventually leaves rollout.
C25_ActorsTerminate ==
    (\A a \in Actors : lifetime[a]) ~> (\A a \in Actors : actor_pc[a] = "exit")

\* C26: an actor thread leaves rollout only from the top of its loop and only
\* with its flag set, and with the flag set it starts no iteration there;
\* inside an iteration the flag changes nothing: the thread leaves the inner
\* loop only after rollout_length passes, it moves from the put only to the
\* top and with one more iteration counted, and every trajectory it has put
\* holds rollout_length transitions.
C26_StopOnlyAtTop ==
    /\ \A i \in 1..Len(pipeline_queue) :
          pipeline_queue[i].traj.length = RolloutLength
    /\ [][\A a \in Actors :
             /\ actor_pc'[a] # actor_pc[a] =>
                   CASE actor_pc[a] = "top" ->
                            actor_pc'[a] = IF lifetime[a] THEN "exit"
                                           ELSE "rollout"
                     [] actor_pc[a] = "rollout" ->
                            /\ actor_pc'[a] = "put"
                            /\ actor_step'[a] = RolloutLength
                     [] actor_pc[a] = "put" ->
                            /\ actor_pc'[a] = "top"
                            /\ actor_rollouts'[a] = actor_rollouts[a] + 1
                            /\ Len(pipeline_queue') = Len(pipeline_queue) + 1
                     [] OTHER -> FALSE
             /\ actor_pc[a] = "rollout" /\ actor_step'[a] # actor_step[a] =>
                   actor_step'[a] = actor_step[a] + 1
             /\ \A i \in 1..Len(pipeline_queue') :
                   pipeline_queue'[i].traj.length = RolloutLength]_vars

\* C26 witness: stop() came while the actor was inside an iteration; the
\* actor has nevertheless made all its passes and stands at the put.
C26_Witness ==
    \E a \in Actors :
        /\ lifetime[a]
        /\ actor_pc[a] = "put"
        /\ actor_step[a] = RolloutLength

\* C28: whenever the learner is not inside its loop over the sources, and so
\* whenever it stands at pipeline.get, every ParamsSource holds the parameters
\* of the latest update made; and at every moment the updates held by two
\* sources are at most one apart.
C28_AllSourcesUpdated ==
    /\ learner_pc # "update" =>
          \A a \in Actors : params_source[a] = Snapshot(learner_version)
    /\ \A a, b \in Actors :
          params_source[a].actor_params - params_source[b].actor_params
              \in {-1, 0, 1}

\* C28 witness: the learner stands at the get of its second update, and every
\* source holds the parameters of the first.
C28_Witness ==
    /\ learner_pc = "get"
    /\ learner_version = 1
    /\ \A a \in Actors : params_source[a] = Snapshot(1)

C31_AllResultsReceived ==
    /\ <>(Len(main_results) = NumEvaluation)
    /\ []((\E a \in Actors : lifetime[a]) =>
             Len(main_results) = NumEvaluation)

\* C31 witness: the main thread has taken the last result and stands before
\* its loop of stop() calls, every lifetime still running.
C31_Witness ==
    /\ main_pc = "stop_lifetimes"
    /\ Len(main_results) = NumEvaluation
    /\ \A a \in Actors : ~lifetime[a]

\* The three conditions on_building_init checks before it goes on: as many
\* entries in agent_net_keys as the environment has agent ids, that number a
\* multiple of the length of the first row of the sampling setup, and every
\* row of that length.
SamplingConsistent ==
    /\ builder.network_sampling_setup.rows # <<>>
    /\ Len(environment_agent_ids) = Cardinality(DOMAIN builder.agent_net_keys)
    /\ \E k \in 0..Len(environment_agent_ids) :
          Len(environment_agent_ids) =
              k * Len(builder.network_sampling_setup.rows[1])
    /\ \A i \in 1..Len(builder.network_sampling_setup.rows) :
          Len(builder.network_sampling_setup.rows[i]) =
              Len(builder.network_sampling_setup.rows[1])

\* C32: on_building_init ends without an exception only if the three
\* conditions hold; whenever one of them fails it ends with an exception.
C32_ConsistentOrError ==
    executor_pc = "done" =>
        /\ executor_error = "none" => SamplingConsistent
        /\ ~SamplingConsistent => executor_error # "none"

\* C32 witness: a setup of two rows of one key each for two agents has
\* passed the checks.
C32_Witness ==
    /\ executor_pc = "done"
    /\ executor_error = "none"
    /\ Len(builder.network_sampling_setup.rows) = 2
    /\ Len(environment_agent_ids) = 2

\* C33: with random_agent_networks, on_building_init raises ValueError if the
\* weights are shared; otherwise it ends without an exception, agent i of the
\* sorted agents has the key network_i, the keys of the agents are pairwise
\* distinct, and net_keys_to_ids maps them one-to-one onto 0..N-1.
C33_RandomAgentNetworks ==
    (executor_pc = "done"
        /\ executor_config.network_sampling_setup = "random_agent_networks")
    => IF executor_config.shared_weights
          THEN executor_error = "ValueError"
          ELSE /\ executor_error = "none"
               /\ \A i \in 1..Len(builder.agents) :
                     builder.agent_net_keys[builder.agents[i]] =
                         NetworkOfIndex(i - 1)
               /\ Cardinality(DOMAIN builder.net_keys_to_ids) =
                     Len(builder.agents)
               /\ {builder.net_keys_to_ids[k] :
                      k \in DOMAIN builder.net_keys_to_ids} =
                     0..(Len(builder.agents) - 1)

\* The number of transitions written this episode whose window starts at
\* step s.
Origins(s) == Cardinality({i \in 1..Len(emitted) : emitted[i][1] = s})

\* C34: when an episode of T >= 1 adds has been closed by _write_last, every
\* step 0..T-1 is the first step of a written transition: step 0 of exactly
\* min(n_step, T) of them, every other step of exactly one.
C34_EveryStepAnOrigin ==
    (episode = "ended" /\ error = "none") =>
        /\ Origins(0) = Min2(n_step, last_idx)
        /\ \A s \in 1..(last_idx - 1) : Origins(s) = 1
        /\ \A i \in 1..Len(emitted) : emitted[i][1] \in 0..(last_idx - 1)

\* C34 witness: an episode longer than the window: step 0 is the origin of
\* n_step transitions, some steps are origins through add and the last ones
\* through _write_last.
C34_Witness ==
    /\ episode = "ended"
    /\ error = "none"
    /\ n_step = 2
    /\ last_idx = 4
    /\ Origins(0) = 2
    /\ Origins(3) = 1

\* The sizes 1, 2, ..., k followed by k-1, ..., 1.
UpAndDown(k) == [i \in 1..(2 * k - 1) |-> IF i <= k THEN i ELSE 2 * k - i]

\* C35: while an episode is shorter than the window first_idx stays 0; closed
\* at T < n_step adds it has written windows of the sizes 1, ..., T and then
\* T-1, ..., 1, which are 2T-1 transitions; and an episode of any length T
\* closed by _write_last has written T + min(n_step, T) - 1 transitions.
C35_ShortEpisode ==
    /\ (episode = "live" /\ last_idx < n_step) => first_idx = 0
    /\ (episode = "ended" /\ error = "none" /\ last_idx < n_step) =>
          /\ Sizes = UpAndDown(last_idx)
          /\ Len(emitted) = 2 * last_idx - 1
    /\ (episode = "ended" /\ error = "none") =>
          Len(emitted) = last_idx + Min2(n_step, last_idx) - 1

\* C35 witness: an episode of two adds under a window of three.
C35_Witness ==
    /\ episode = "ended"
    /\ error = "none"
    /\ n_step = 3
    /\ last_idx = 2
    /\ Sizes = <<1, 2, 1>>

\* The transition _write forms for the window <<fi, li>> of the closed
\* episode.
TailTransition(fi, li) ==
    _write(fi, li, history, episode_steps, discount,
           table_net_config).transition

\* C36: the step of _write_last ends, leaves last_idx as it was and
\* first_idx equal to it; and every window it has written ends at the last
\* step, its transition carrying the final observation of the episode as
\* next_observation.
C36_WriteLastFrame ==
    /\ []((episode = "ended" /\ error = "none") =>
            /\ first_idx = last_idx
            /\ \A i \in (last_idx + 1)..Len(emitted) :
                  /\ emitted[i][2] = last_idx
                  /\ TailTransition(emitted[i][1], emitted[i][2])
                        .next_observation = Observation(last_idx)
            /\ Len(emitted) > last_idx =>
                  transition.next_observation = Observation(last_idx))
    /\ [][(episode = "live" /\ episode' = "ended") =>
             /\ last_idx' = last_idx
             /\ error' = "none"
             /\ first_idx' = last_idx]_vars

\* C36 witness: _write_last has written two tail transitions.
C36_Witness ==
    /\ episode = "ended"
    /\ error = "none"
    /\ n_step = 3
    /\ last_idx = 3
    /\ Len(emitted) = 5
    /\ transition.next_observation = Observation(3)

\* The rewards and the environment discounts of the first k steps of the
\* last window, as _write slices them from the history.
WinRewards(k) == [j \in 1..k |-> history[LastWindow[1] + j].rewards]
WinDiscounts(k) == [j \in 1..k |-> history[LastWindow[1] + j].discounts]

\* The n-step return of the last window cut off after its first k steps.
TruncatedReturn(a, k) ==
    _compute_cumulative_quantities(WinRewards(k), WinDiscounts(k),
                                   discount, k).n_step_return[a]

\* C37: if an agent's environment discount is 0 at position m of the window,
\* the cumulative discount of the transition is 0 for that agent and its
\* n-step return is that of the window cut off after position m: no later
\* reward counts.
C37_ZeroDiscountCuts ==
    Written =>
        \A a \in Agents : \A m \in 0..(WindowLen - 1) :
            WinDiscount(a, m) = 0 =>
                /\ transition.discount[a] = 0
                /\ transition.reward[a] = TruncatedReturn(a, m + 1)
                /\ transition.reward[a] = ReturnUpTo(a, m + 1)

\* C37 witness: a window of three steps whose second step ends the episode
\* for agent_0; the reward of the third step is not 0 and is left out.
C37_Witness ==
    /\ Written
    /\ WindowLen = 3
    /\ WinDiscount("agent_0", 0) = 1
    /\ WinDiscount("agent_0", 1) = 0
    /\ WinReward("agent_0", 2) > 0
    /\ transition.discount["agent_0"] = 0
    /\ transition.reward["agent_0"] = TruncatedReturn("agent_0", 2)

====
